---- MODULE Spec2Model ----
(***************************************************************************)
(* The ten search functions of binary_search.hpp as one state machine.     *)
(* A run is one call of one variant on one sorted range: the call enters   *)
(* the base function, every loop iteration is a step, and the return sets  *)
(* `result`.  Iterators are indices: begin = 0, end = Size(a), so the end  *)
(* sentinel is the index Size(a).                                          *)
(*                                                                         *)
(* A sorted integer sequence is determined by how often each value occurs, *)
(* so the range is kept as its multiplicities: a[v] is the number of       *)
(* elements equal to v, and At(a, i) is the element at index i.            *)
(***************************************************************************)
EXTENDS Integers, Sequences, FiniteSets, TLC

VARIABLES
    variant,      \* which of the ten functions is called
    form,         \* "keyed" (key, less_than, equal_to) or "default" (key only)
    a,            \* the sorted range, as multiplicities of its values
    key,          \* the key searched for
    pc,           \* position in the called function
    i,            \* Iterator i            (linear, breaking linear)
    low,          \* Iterator low          (standard, monobound)
    high,         \* Iterator high         (standard, monobound)
    mid,          \* mid                   (boundless, doubletapped, tripletapped)
    bot,          \* bot
    top,          \* top
    result,       \* the returned iterator, once pc = "done"
    probe,        \* {index of the element a predicate was evaluated on last},
                  \* empty while the call has evaluated none
    keyedResult,  \* what the keyed form returned, once the default form is called
    state,        \* adaptive_binary_search_state {i, balance}, owned by the caller
    calls         \* completed calls threading `state`

locals == <<i, low, high, mid, bot, top>>
inputs == <<variant, form, a, key, keyedResult, state, calls>>
vars == <<variant, form, a, key, pc, i, low, high, mid, bot, top,
          result, probe, keyedResult, state, calls>>

----------------------------------------------------------------------------
\* Bounds of the model.

\* element values are 1..MaxVal, keys 0..MaxVal+1
MaxVal == 4
\* short ranges: every value occurs at most MaxRun times
MaxRun == 2
\* ranges around and past the gallop widths (32, 64): a value may occur
\* LongRun times
LongRun == 64
\* ranges past the quaternary threshold: a value may occur HugeRun times
HugeRun == 33000
\* calls after the first that thread one adaptive state
MaxCalls == 2

----------------------------------------------------------------------------
\* Constants of the program.

QuaternaryThreshold == 65536
InterpolatedWidth == 64
AdaptiveWidth == 32
AdaptiveBalanceLimit == 32
AdaptiveMinSize == 64

Values == 1..MaxVal
Keys == 0..(MaxVal + 1)
Forms == {"keyed", "default"}

Stateless ==
    {"linear_search", "breaking_linear_search", "standard_binary_search",
     "boundless_binary_search", "doubletapped_binary_search",
     "monobound_binary_search", "tripletapped_binary_search",
     "monobound_quaternary_search", "monobound_interpolated_search"}
Variants == Stateless \cup {"adaptive_binary_search"}

----------------------------------------------------------------------------
\* The range.

RECURSIVE Below(_, _)
\* number of elements of arr with a value <= v
Below(arr, v) == IF v <= 0 THEN 0 ELSE arr[v] + Below(arr, v - 1)

\* std::distance(begin, end)
Size(arr) == Below(arr, MaxVal)

\* *std::next(begin, idx), for 0 <= idx < Size(arr)
At(arr, idx) == CHOOSE v \in Values : Below(arr, v - 1) <= idx /\ idx < Below(arr, v)

End == Size(a)
InRange(idx) == 0 <= idx /\ idx < Size(a)

\* The values a dereference of begin + idx can yield: the element when the
\* index is inside the range, anything when it is not (undefined behaviour).
Deref(idx) == IF InRange(idx) THEN {At(a, idx)} ELSE Keys

Present(arr, k) == k \in Values /\ arr[k] > 0

ShortRanges == [Values -> 0..MaxRun]
LongRanges == [Values -> {0, 1, LongRun}]
HugeRanges == [Values -> {0, 1, HugeRun}]

RangesOf(v) ==
    CASE v = "monobound_quaternary_search" -> ShortRanges \cup HugeRanges
      [] v \in {"monobound_interpolated_search", "adaptive_binary_search"} ->
             ShortRanges \cup LongRanges
      [] OTHER -> ShortRanges

----------------------------------------------------------------------------
\* The predicates the wrappers pass to the base functions.

\* keyed form: [&](auto& right) { return less_than(key, right); }, with the
\* natural < as less_than
keyed_less_than(right) == key < right

\* default form: the lambda each variant's three-argument overload passes
default_less_than(right) ==
    IF variant \in {"breaking_linear_search", "boundless_binary_search",
                    "doubletapped_binary_search"}
    THEN key >= right
    ELSE key < right

less_than(right) ==
    IF form = "keyed" THEN keyed_less_than(right) ELSE default_less_than(right)

equal_to(right) == key = right

----------------------------------------------------------------------------
\* Shared pieces of the actions.

Return(r) ==
    /\ pc' = "done"
    /\ result' = r

\* one predicate evaluation on *(begin + idx)
Probed(idx) == probe' = {idx}

Entering(v) == pc = "call" /\ variant = v

\* if (begin == end) return end;
ReturnEmpty ==
    /\ Return(End)
    /\ UNCHANGED <<inputs, locals, probe>>

----------------------------------------------------------------------------
\* linear_search_base

linear_search_enter ==
    /\ Entering("linear_search")
    /\ IF Size(a) = 0
       THEN ReturnEmpty
       ELSE /\ i' = Size(a) - 1
            /\ pc' = "ls_loop"
            /\ UNCHANGED <<inputs, low, high, mid, bot, top, result, probe>>

\* for (Iterator i = std::prev(end); i >= begin; --i) if (equal_to(*i)) return i;
linear_search_loop ==
    /\ pc = "ls_loop"
    /\ IF i >= 0
       THEN \E x \in Deref(i) :
              /\ Probed(i)
              /\ IF equal_to(x)
                 THEN Return(i) /\ UNCHANGED i
                 ELSE i' = i - 1 /\ UNCHANGED <<pc, result>>
              /\ UNCHANGED <<inputs, low, high, mid, bot, top>>
       ELSE /\ Return(End)
            /\ UNCHANGED <<inputs, locals, probe>>

----------------------------------------------------------------------------
\* breaking_linear_search_base

breaking_linear_search_enter ==
    /\ Entering("breaking_linear_search")
    /\ IF Size(a) = 0
       THEN ReturnEmpty
       ELSE /\ i' = Size(a) - 1
            /\ pc' = "bls_loop"
            /\ UNCHANGED <<inputs, low, high, mid, bot, top, result, probe>>

\* while (i > begin && less_than(*i)) --i;
breaking_linear_search_loop ==
    /\ pc = "bls_loop"
    /\ IF i > 0
       THEN \E x \in Deref(i) :
              /\ Probed(i)
              /\ IF less_than(x)
                 THEN i' = i - 1 /\ UNCHANGED pc
                 ELSE pc' = "bls_ret" /\ UNCHANGED i
              /\ UNCHANGED <<inputs, low, high, mid, bot, top, result>>
       ELSE /\ pc' = "bls_ret"
            /\ UNCHANGED <<inputs, locals, result, probe>>

\* return equal_to(*i) ? i : end;
breaking_linear_search_ret ==
    /\ pc = "bls_ret"
    /\ \E x \in Deref(i) :
         /\ Probed(i)
         /\ Return(IF equal_to(x) THEN i ELSE End)
    /\ UNCHANGED <<inputs, locals>>

----------------------------------------------------------------------------
\* standard_binary_search_base

standard_binary_search_enter ==
    /\ Entering("standard_binary_search")
    /\ IF Size(a) = 0
       THEN ReturnEmpty
       ELSE /\ low' = 0
            /\ high' = Size(a) - 1
            /\ pc' = "sbs_while"
            /\ UNCHANGED <<inputs, i, mid, bot, top, result, probe>>

\* while (low < high)
standard_binary_search_while ==
    /\ pc = "sbs_while"
    /\ pc' = IF low < high THEN "sbs_body" ELSE "sbs_ret"
    /\ UNCHANGED <<inputs, locals, result, probe>>

\* the new <<low, high>> of one loop body, x being *mid
standard_binary_search_step(lo, hi, m, x) ==
    IF less_than(x) THEN <<lo, m - 1>> ELSE <<m, hi>>

\* Iterator mid = std::next(low, std::distance(low, high) / 2);
\* if (less_than(*mid)) high = std::prev(mid); else low = mid;
standard_binary_search_body ==
    /\ pc = "sbs_body"
    /\ LET m == low + ((high - low) \div 2) IN
         \E x \in Deref(m) :
           /\ Probed(m)
           /\ low' = standard_binary_search_step(low, high, m, x)[1]
           /\ high' = standard_binary_search_step(low, high, m, x)[2]
    /\ pc' = "sbs_while"
    /\ UNCHANGED <<inputs, i, mid, bot, top, result>>

\* return equal_to(*high) ? high : end;
standard_binary_search_ret ==
    /\ pc = "sbs_ret"
    /\ \E x \in Deref(high) :
         /\ Probed(high)
         /\ Return(IF equal_to(x) THEN high ELSE End)
    /\ UNCHANGED <<inputs, locals>>

----------------------------------------------------------------------------
\* boundless_binary_search_base

boundless_binary_search_enter ==
    /\ Entering("boundless_binary_search")
    /\ IF Size(a) = 0
       THEN ReturnEmpty
       ELSE /\ mid' = Size(a)
            /\ bot' = 0
            /\ pc' = "bbs_loop"
            /\ UNCHANGED <<inputs, i, low, high, top, result, probe>>

\* the new <<bot, mid>> of one halving step shared by the boundless and the
\* doubletapped loop, x being *(begin + bot + mid / 2):
\* if (!less_than(x)) bot += mid++ / 2;  mid /= 2;
boundless_step(b, m, x) ==
    IF ~less_than(x)
    THEN <<b + (m \div 2), (m + 1) \div 2>>
    ELSE <<b, m \div 2>>

\* while (mid > 1) { ... }
boundless_binary_search_loop ==
    /\ pc = "bbs_loop"
    /\ IF mid > 1
       THEN /\ \E x \in Deref(bot + (mid \div 2)) :
                 /\ Probed(bot + (mid \div 2))
                 /\ bot' = boundless_step(bot, mid, x)[1]
                 /\ mid' = boundless_step(bot, mid, x)[2]
            /\ UNCHANGED <<inputs, i, low, high, top, pc, result>>
       ELSE /\ pc' = "bbs_ret"
            /\ UNCHANGED <<inputs, locals, result, probe>>

\* Iterator target = std::next(begin, bot); return equal_to(*target) ? target : end;
boundless_binary_search_ret ==
    /\ pc = "bbs_ret"
    /\ \E x \in Deref(bot) :
         /\ Probed(bot)
         /\ Return(IF equal_to(x) THEN bot ELSE End)
    /\ UNCHANGED <<inputs, locals>>

----------------------------------------------------------------------------
\* doubletapped_binary_search_base

\* The function opens with assert(begin < end) and has no test for the empty
\* range: with assertions compiled in, an empty range aborts the program; with
\* NDEBUG the call goes on with mid = 0.
doubletapped_binary_search_enter ==
    /\ Entering("doubletapped_binary_search")
    /\ \/ /\ Size(a) = 0
          /\ pc' = "abort"
          /\ UNCHANGED <<inputs, locals, result, probe>>
       \/ /\ mid' = Size(a)
          /\ bot' = 0
          /\ pc' = "dbs_loop"
          /\ UNCHANGED <<inputs, i, low, high, top, result, probe>>

\* while (mid > 2) { ... }
doubletapped_binary_search_loop ==
    /\ pc = "dbs_loop"
    /\ IF mid > 2
       THEN /\ \E x \in Deref(bot + (mid \div 2)) :
                 /\ Probed(bot + (mid \div 2))
                 /\ bot' = boundless_step(bot, mid, x)[1]
                 /\ mid' = boundless_step(bot, mid, x)[2]
            /\ UNCHANGED <<inputs, i, low, high, top, pc, result>>
       ELSE /\ pc' = "dbs_tap"
            /\ UNCHANGED <<inputs, locals, result, probe>>

\* while (mid--) { target = begin + bot + mid; if (equal_to(*target)) return target; }
\* return end;
doubletapped_binary_search_tap ==
    /\ pc = "dbs_tap"
    /\ mid' = mid - 1
    /\ IF mid # 0
       THEN \E x \in Deref(bot + mid') :
              /\ Probed(bot + mid')
              /\ IF equal_to(x)
                 THEN Return(bot + mid')
                 ELSE UNCHANGED <<pc, result>>
       ELSE /\ Return(End)
            /\ UNCHANGED probe
    /\ UNCHANGED <<inputs, i, low, high, bot, top>>

----------------------------------------------------------------------------
\* monobound_binary_search_base

monobound_binary_search_enter ==
    /\ Entering("monobound_binary_search")
    /\ IF Size(a) = 0
       THEN ReturnEmpty
       ELSE /\ low' = 0
            /\ high' = Size(a)
            /\ pc' = "mbs_loop"
            /\ UNCHANGED <<inputs, i, mid, bot, top, result, probe>>

\* the element one iteration compares, k being std::distance(begin, high) / 2:
\* less_than(*std::next(begin, k))
monobound_probe(lo, k) == k

\* while (high > second) { k = distance(begin, high) / 2;
\*   if (!less_than(*std::next(begin, k))) low += k;  high -= k; }
monobound_binary_search_loop ==
    /\ pc = "mbs_loop"
    /\ IF high > 1
       THEN /\ LET k == high \div 2 IN
                 \E x \in Deref(monobound_probe(low, k)) :
                   /\ Probed(monobound_probe(low, k))
                   /\ low' = IF ~less_than(x) THEN low + k ELSE low
                   /\ high' = high - k
            /\ UNCHANGED <<inputs, i, mid, bot, top, pc, result>>
       ELSE /\ pc' = "mbs_ret"
            /\ UNCHANGED <<inputs, locals, result, probe>>

\* return equal_to(*low) ? low : end;
monobound_binary_search_ret ==
    /\ pc = "mbs_ret"
    /\ \E x \in Deref(low) :
         /\ Probed(low)
         /\ Return(IF equal_to(x) THEN low ELSE End)
    /\ UNCHANGED <<inputs, locals>>

----------------------------------------------------------------------------
\* The narrowing loop and the tail taps that tripletapped, quaternary and
\* interpolated search each repeat.

\* the new <<bot, top>> of:  auto mid = top / 2;
\* if (!less_than(*std::next(begin, bot + mid))) bot += mid;  top -= mid;
\* x being the element compared
monobound_step(b, t, x) ==
    IF ~less_than(x)
    THEN <<b + (t \div 2), t - (t \div 2)>>
    ELSE <<b, t - (t \div 2)>>

\* while (top > 3) { ... }, leaving to pc `after`
Narrow(after) ==
    /\ IF top > 3
       THEN /\ \E x \in Deref(bot + (top \div 2)) :
                 /\ Probed(bot + (top \div 2))
                 /\ bot' = monobound_step(bot, top, x)[1]
                 /\ top' = monobound_step(bot, top, x)[2]
            /\ UNCHANGED <<inputs, i, low, high, mid, pc, result>>
       ELSE /\ pc' = after
            /\ UNCHANGED <<inputs, locals, result, probe>>

\* while (top--) { target = begin + bot + top; if (equal_to(*target)) return target; }
\* return end;
Tap ==
    /\ top' = top - 1
    /\ IF top # 0
       THEN \E x \in Deref(bot + top') :
              /\ Probed(bot + top')
              /\ IF equal_to(x)
                 THEN Return(bot + top')
                 ELSE UNCHANGED <<pc, result>>
       ELSE /\ Return(End)
            /\ UNCHANGED probe
    /\ UNCHANGED <<inputs, i, low, high, mid, bot>>

----------------------------------------------------------------------------
\* tripletapped_binary_search_base

\* decltype(top) mid = 0;  is the mid the tap loop counts down
tripletapped_binary_search_enter ==
    /\ Entering("tripletapped_binary_search")
    /\ IF Size(a) = 0
       THEN ReturnEmpty
       ELSE /\ top' = Size(a)
            /\ bot' = 0
            /\ mid' = 0
            /\ pc' = "tbs_loop"
            /\ UNCHANGED <<inputs, i, low, high, result, probe>>

\* while (top > 3) { auto mid = top / 2; ... }: the loop's mid is a new
\* variable of the block, the function's mid stays 0
tripletapped_binary_search_loop ==
    /\ pc = "tbs_loop"
    /\ Narrow("tbs_tap")

\* while (mid--) { target = begin + bot + top; if (equal_to(*target)) return target; }
\* return end;
tripletapped_binary_search_tap ==
    /\ pc = "tbs_tap"
    /\ mid' = mid - 1
    /\ IF mid # 0
       THEN \E x \in Deref(bot + top) :
              /\ Probed(bot + top)
              /\ IF equal_to(x)
                 THEN Return(bot + top)
                 ELSE UNCHANGED <<pc, result>>
       ELSE /\ Return(End)
            /\ UNCHANGED probe
    /\ UNCHANGED <<inputs, i, low, high, bot, top>>

----------------------------------------------------------------------------
\* monobound_quaternary_search_base

monobound_quaternary_search_enter ==
    /\ Entering("monobound_quaternary_search")
    /\ IF Size(a) = 0
       THEN ReturnEmpty
       ELSE /\ top' = Size(a)
            /\ bot' = 0
            /\ pc' = "mqs_quad"
            /\ UNCHANGED <<inputs, i, low, high, mid, result, probe>>

\* while (top >= 65536) { auto mid = top / 4; top -= mid * 3;
\*   if (less_than(*std::next(begin, bot + mid * 2))) ... else { bot += mid * 2; ... } }
monobound_quaternary_search_quad ==
    /\ pc = "mqs_quad"
    /\ IF top >= QuaternaryThreshold
       THEN /\ mid' = top \div 4
            /\ top' = top - (3 * mid')
            /\ \E x \in Deref(bot + (2 * mid')) :
                 /\ Probed(bot + (2 * mid'))
                 /\ bot' = IF less_than(x) THEN bot ELSE bot + (2 * mid')
            /\ pc' = "mqs_quarter"
            /\ UNCHANGED <<inputs, i, low, high, result>>
       ELSE /\ pc' = "mqs_loop"
            /\ UNCHANGED <<inputs, locals, result, probe>>

\* in either branch:  if (!less_than(*std::next(begin, bot + mid))) bot += mid;
monobound_quaternary_search_quarter ==
    /\ pc = "mqs_quarter"
    /\ \E y \in Deref(bot + mid) :
         /\ Probed(bot + mid)
         /\ bot' = IF ~less_than(y) THEN bot + mid ELSE bot
    /\ pc' = "mqs_quad"
    /\ UNCHANGED <<inputs, i, low, high, mid, top, result>>

monobound_quaternary_search_loop ==
    /\ pc = "mqs_loop"
    /\ Narrow("mqs_tap")

monobound_quaternary_search_tap ==
    /\ pc = "mqs_tap"
    /\ Tap

----------------------------------------------------------------------------
\* monobound_interpolated_search_base
\*
\* Lines 425 and 432 pass an iterator where every other call of the function
\* passes the element (equal_to(max), less_than(std::next(begin, bot))); the
\* lambdas of the wrappers take an element, so both are modelled as the
\* comparison of the element the iterator points to.

\* if (begin == end) return end;  if (less_than(*begin)) return end;
monobound_interpolated_search_enter ==
    /\ Entering("monobound_interpolated_search")
    /\ IF Size(a) = 0
       THEN ReturnEmpty
       ELSE \E x \in Deref(0) :
              /\ Probed(0)
              /\ IF less_than(x)
                 THEN Return(End)
                 ELSE pc' = "mis_max" /\ UNCHANGED result
              /\ UNCHANGED <<inputs, locals>>

\* auto bot = size - 1; auto max = std::next(begin, bot);
\* if (!less_than(*max)) return equal_to(max) ? max : end;
monobound_interpolated_search_max ==
    /\ pc = "mis_max"
    /\ \E x \in Deref(Size(a) - 1) :
         /\ Probed(Size(a) - 1)
         /\ bot' = Size(a) - 1
         /\ IF ~less_than(x)
            THEN Return(IF equal_to(x) THEN Size(a) - 1 ELSE End)
            ELSE pc' = "mis_estimate" /\ UNCHANGED result
    /\ UNCHANGED <<inputs, i, low, high, mid, top>>

\* bot *= (real_type)(key - *min) / (*max - *min);  real_type is float or
\* double by the width of the index type.  The quotient is rounded before the
\* product is taken, so where (size-1)*(key-min)/(max-min) is a whole number
\* the truncated product is that number or the one below it; elsewhere it is
\* the floor.
Estimate(last, k, min, max) ==
    LET num == last * (k - min)
        den == max - min
        floor == num \div den
    IN  {floor} \cup (IF num % den = 0 /\ floor >= 1 THEN {floor - 1} ELSE {})

\* auto top = 64;  if (!less_than(*std::next(begin, bot))) gallop up, else down
monobound_interpolated_search_estimate ==
    /\ pc = "mis_estimate"
    /\ \E e \in Estimate(bot, key, At(a, 0), At(a, bot)) :
         \E x \in Deref(e) :
           /\ Probed(e)
           /\ bot' = e
           /\ top' = InterpolatedWidth
           /\ pc' = IF ~less_than(x) THEN "mis_up" ELSE "mis_down"
    /\ UNCHANGED <<inputs, i, low, high, mid, result>>

\* One turn of the upward loop of the interpolated search, as
\* <<bot, top, left>>, left telling that the loop was left by break; x is
\* the element at bot + top:
\*   if (bot + top >= size) { top = size - bot; break; }
\*   bot += top;  if (less_than(*(begin + bot))) { bot -= top; break; }  top *= 2;
interpolated_gallop_up(b, t, size, x) ==
    IF b + t >= size THEN <<b, size - b, TRUE>>
    ELSE IF less_than(x) THEN <<b, t, TRUE>>
    ELSE <<b + t, 2 * t, FALSE>>

monobound_interpolated_search_up ==
    /\ pc = "mis_up"
    /\ \E x \in (IF bot + top >= Size(a) THEN {0} ELSE Deref(bot + top)) :
         LET g == interpolated_gallop_up(bot, top, Size(a), x) IN
           /\ bot' = g[1]
           /\ top' = g[2]
           /\ pc' = IF g[3] THEN "mis_loop" ELSE pc
           /\ probe' = IF bot + top >= Size(a) THEN probe ELSE {bot + top}
    /\ UNCHANGED <<inputs, i, low, high, mid, result>>

\* One turn of the downward loop of the interpolated search, as
\* <<bot, top, left>>; x is the element at bot - top:
\*   if (bot < top) { top = bot; bot = 0; break; }
\*   bot -= top;  if (less_than(*(begin + bot))) break;  top *= 2;
interpolated_gallop_down(b, t, x) ==
    IF b < t THEN <<0, b, TRUE>>
    ELSE IF less_than(x) THEN <<b - t, t, TRUE>>
    ELSE <<b - t, 2 * t, FALSE>>

monobound_interpolated_search_down ==
    /\ pc = "mis_down"
    /\ \E x \in (IF bot < top THEN {0} ELSE Deref(bot - top)) :
         LET g == interpolated_gallop_down(bot, top, x) IN
           /\ bot' = g[1]
           /\ top' = g[2]
           /\ pc' = IF g[3] THEN "mis_loop" ELSE pc
           /\ probe' = IF bot < top THEN probe ELSE {bot - top}
    /\ UNCHANGED <<inputs, i, low, high, mid, result>>

monobound_interpolated_search_loop ==
    /\ pc = "mis_loop"
    /\ Narrow("mis_tap")

monobound_interpolated_search_tap ==
    /\ pc = "mis_tap"
    /\ Tap

----------------------------------------------------------------------------
\* adaptive_binary_search_base

\* The fallback branch assigns top = array_size, a name the header does not
\* declare; it stands for the size of the range.
array_size == Size(a)

\* if (state.balance < 32 && size > 64)
adaptive_anchored(st, size) ==
    st.balance < AdaptiveBalanceLimit /\ size > AdaptiveMinSize

adaptive_binary_search_enter ==
    /\ Entering("adaptive_binary_search")
    /\ IF Size(a) = 0
       THEN ReturnEmpty
       ELSE IF adaptive_anchored(state, Size(a))
       THEN \E x \in Deref(state.i) :
              /\ Probed(state.i)
              /\ bot' = state.i
              /\ top' = AdaptiveWidth
              /\ pc' = IF ~less_than(x) THEN "abs_up" ELSE "abs_down"
              /\ UNCHANGED <<inputs, i, low, high, mid, result>>
       ELSE /\ bot' = 0
            /\ top' = array_size
            /\ pc' = "abs_scan"
            /\ UNCHANGED <<inputs, i, low, high, mid, result, probe>>

\* adaptive_gallop_up without its bot -= top before the break
adaptive_gallop_up_leaves_bot(b, t, size, x) ==
    IF b + t >= size THEN <<b, size - b, TRUE>>
    ELSE IF less_than(x) THEN <<b + t, t, TRUE>>
    ELSE <<b + t, 2 * t, FALSE>>

\* One turn of the upward loop of the adaptive search, as <<bot, top, left>>;
\* x is the element at bot + top:
\*   if (bot + top >= size) { top = size - bot; break; }
\*   bot += top;  if (less_than(*(begin + bot))) { bot -= top; break; }  top *= 2;
adaptive_gallop_up(b, t, size, x) ==
    IF b + t >= size THEN <<b, size - b, TRUE>>
    ELSE IF less_than(x) THEN <<b, t, TRUE>>
    ELSE <<b + t, 2 * t, FALSE>>

adaptive_binary_search_up ==
    /\ pc = "abs_up"
    /\ \E x \in (IF bot + top >= Size(a) THEN {0} ELSE Deref(bot + top)) :
         LET g == adaptive_gallop_up(bot, top, Size(a), x) IN
           /\ bot' = g[1]
           /\ top' = g[2]
           /\ pc' = IF g[3] THEN "abs_scan" ELSE pc
           /\ probe' = IF bot + top >= Size(a) THEN probe ELSE {bot + top}
    /\ UNCHANGED <<inputs, i, low, high, mid, result>>

\* One turn of the downward loop of the adaptive search, as <<bot, top, left>>;
\* x is the element at bot - top:
\*   if (bot < top) { top = bot; bot = 0; break; }
\*   bot -= top;  if (!less_than(*(begin + bot))) break;  top *= 2;
adaptive_gallop_down(b, t, x) ==
    IF b < t THEN <<0, b, TRUE>>
    ELSE IF ~less_than(x) THEN <<b - t, t, TRUE>>
    ELSE <<b - t, 2 * t, FALSE>>

adaptive_binary_search_down ==
    /\ pc = "abs_down"
    /\ \E x \in (IF bot < top THEN {0} ELSE Deref(bot - top)) :
         LET g == adaptive_gallop_down(bot, top, x) IN
           /\ bot' = g[1]
           /\ top' = g[2]
           /\ pc' = IF g[3] THEN "abs_scan" ELSE pc
           /\ probe' = IF bot < top THEN probe ELSE {bot - top}
    /\ UNCHANGED <<inputs, i, low, high, mid, result>>

\* the element one turn of the final loop tests, t being top before --top
adaptive_scan_index(b, t) == b + (t - 1)

\* while (top != 0) if (equal_to(*std::next(begin, bot + --top)))
\*     return std::next(begin, bot + top);
\* return end;
adaptive_binary_search_scan ==
    /\ pc = "abs_scan"
    /\ IF top # 0
       THEN \E x \in Deref(adaptive_scan_index(bot, top)) :
              /\ Probed(adaptive_scan_index(bot, top))
              /\ top' = top - 1
              /\ IF equal_to(x)
                 THEN Return(bot + top')
                 ELSE UNCHANGED <<pc, result>>
       ELSE /\ Return(End)
            /\ UNCHANGED <<top, probe>>
    /\ UNCHANGED <<inputs, i, low, high, mid, bot>>

----------------------------------------------------------------------------
\* The caller.

\* What a wrapper's call leaves behind when the next one starts.
Restart ==
    /\ pc' = "call"
    /\ i' = 0 /\ low' = 0 /\ high' = 0 /\ mid' = 0 /\ bot' = 0 /\ top' = 0
    /\ result' = 0
    /\ probe' = {}

\* After search(begin, end, key, less_than, equal_to) has returned, the same
\* range and key are searched with search(begin, end, key).
CallDefaultForm ==
    /\ pc = "done"
    /\ form = "keyed"
    /\ form' = "default"
    /\ keyedResult' = result
    /\ Restart
    /\ UNCHANGED <<variant, a, key, state, calls>>

\* The caller of the adaptive search searches the same range again, for any
\* key and through either form, passing the state record of the call before.
CallAgain ==
    /\ pc = "done"
    /\ variant = "adaptive_binary_search"
    /\ calls < MaxCalls
    /\ calls' = calls + 1
    /\ key' \in Keys
    /\ form' \in Forms
    /\ Restart
    /\ UNCHANGED <<variant, a, keyedResult, state>>

----------------------------------------------------------------------------

Init ==
    /\ variant \in Variants
    /\ form = "keyed"
    /\ a \in RangesOf(variant)
    /\ key \in Keys
    /\ pc = "call"
    /\ i = 0 /\ low = 0 /\ high = 0 /\ mid = 0 /\ bot = 0 /\ top = 0
    /\ result = 0
    /\ probe = {}
    /\ keyedResult = 0
    /\ state = [i |-> 0, balance |-> 0]
    /\ calls = 0

linear_search_actions ==
    \/ linear_search_enter
    \/ linear_search_loop

breaking_linear_search_actions ==
    \/ breaking_linear_search_enter
    \/ breaking_linear_search_loop
    \/ breaking_linear_search_ret

standard_binary_search_actions ==
    \/ standard_binary_search_enter
    \/ standard_binary_search_while
    \/ standard_binary_search_body
    \/ standard_binary_search_ret

boundless_binary_search_actions ==
    \/ boundless_binary_search_enter
    \/ boundless_binary_search_loop
    \/ boundless_binary_search_ret

doubletapped_binary_search_actions ==
    \/ doubletapped_binary_search_enter
    \/ doubletapped_binary_search_loop
    \/ doubletapped_binary_search_tap

monobound_binary_search_actions ==
    \/ monobound_binary_search_enter
    \/ monobound_binary_search_loop
    \/ monobound_binary_search_ret

tripletapped_binary_search_actions ==
    \/ tripletapped_binary_search_enter
    \/ tripletapped_binary_search_loop
    \/ tripletapped_binary_search_tap

monobound_quaternary_search_actions ==
    \/ monobound_quaternary_search_enter
    \/ monobound_quaternary_search_quad
    \/ monobound_quaternary_search_quarter
    \/ monobound_quaternary_search_loop
    \/ monobound_quaternary_search_tap

monobound_interpolated_search_actions ==
    \/ monobound_interpolated_search_enter
    \/ monobound_interpolated_search_max
    \/ monobound_interpolated_search_estimate
    \/ monobound_interpolated_search_up
    \/ monobound_interpolated_search_down
    \/ monobound_interpolated_search_loop
    \/ monobound_interpolated_search_tap

adaptive_binary_search_actions ==
    \/ adaptive_binary_search_enter
    \/ adaptive_binary_search_up
    \/ adaptive_binary_search_down
    \/ adaptive_binary_search_scan

\* One call of any variant through its keyed form, then through its default form.
Next ==
    \/ linear_search_actions
    \/ breaking_linear_search_actions
    \/ standard_binary_search_actions
    \/ boundless_binary_search_actions
    \/ doubletapped_binary_search_actions
    \/ monobound_binary_search_actions
    \/ tripletapped_binary_search_actions
    \/ monobound_quaternary_search_actions
    \/ monobound_interpolated_search_actions
    \/ adaptive_binary_search_actions
    \/ CallDefaultForm

Spec == Init /\ [][Next]_vars

\* The calls run: a call that can take a step takes one.
FairSpec == Spec /\ WF_vars(Next)

\* Successive calls of the adaptive search on one range, threading one state
\* record that starts zero-initialised.
InitAdaptive ==
    /\ Init
    /\ variant = "adaptive_binary_search"

NextAdaptive ==
    \/ adaptive_binary_search_enter
    \/ adaptive_binary_search_up
    \/ adaptive_binary_search_down
    \/ adaptive_binary_search_scan
    \/ CallAgain

SpecAdaptive == InitAdaptive /\ [][NextAdaptive]_vars

----------------------------------------------------------------------------
\* What the calls are to achieve.

Ended == pc \in {"done", "abort"}

\* r is the index of an element equal to the key
Found(r) == InRange(r) /\ At(a, r) = key

\* r is the right answer: a matching index when the key is in the range, the
\* end sentinel when it is not
Correct(r) == IF Present(a, key) THEN Found(r) ELSE r = End

\* the window [b, b + t) holds an element equal to the key
Holds(b, t) == \E idx \in b..(b + t - 1) : InRange(idx) /\ At(a, idx) = key

\* C1: called through its keyed form on a non-empty sorted range, every
\* variant returns the index of an element equal to the key when there is
\* one, and the end sentinel when there is none.
C1_KeyedFormCorrect ==
    (pc = "done" /\ form = "keyed" /\ Size(a) > 0) => Correct(result)

\* C2: every call of every variant runs to completion: once called, the
\* function eventually returns (or ends the program).
C2_EveryCallEnds == (pc = "call") ~> Ended

\* C3: on an empty range no variant fails an assertion or evaluates a
\* predicate on an element, and what it returns is the end sentinel.
C3_EmptyRange ==
    Size(a) = 0 =>
        /\ pc # "abort"
        /\ probe = {}
        /\ pc = "done" => result = End

\* C4: the default form returns what the keyed form returned for the same
\* range and key.
C4_DefaultFormAgrees ==
    (pc = "done" /\ form = "default") => result = keyedResult

\* C5: after an adaptive call that finds the key at index k, the index field
\* of the state record is k.
C5_StateRecordsResult ==
    (pc = "done" /\ Found(result)) => state.i = result

\* C6: every call of a sequence of adaptive calls that thread one state
\* record, zero-initialised at the start, returns the index of an element
\* equal to its key when the key is in the range and the end sentinel when it
\* is not.
C6_EveryAdaptiveCallCorrect == pc = "done" => Correct(result)

\* C6, its case: a later call of the sequence, on a range long enough for the
\* anchored gallop, finds its key past the first gallop window.
C6_Witness ==
    /\ calls >= 2
    /\ pc = "done"
    /\ adaptive_anchored(state, Size(a))
    /\ Found(result)
    /\ result >= 2 * AdaptiveWidth

\* C7: tripletapped search returns a matching index, never the end sentinel,
\* whenever the range holds the key.
C7_TripletappedFinds ==
    (variant = "tripletapped_binary_search" /\ pc = "done" /\ Present(a, key))
        => Found(result)

\* C8: before and after every turn of the monobound loop, and when it is
\* left, a key that is in the range is in the window [low, low + w), w being
\* high - begin.
C8_MonoboundWindow ==
    (variant = "monobound_binary_search" /\ pc \in {"mbs_loop", "mbs_ret"}
        /\ Present(a, key))
        => Holds(low, high)

\* C9: when either gallop loop of the interpolated search is left, the window
\* [bot, bot + top) lies inside the range and holds the key if the range does.
C9_GallopBrackets ==
    [][(pc \in {"mis_up", "mis_down"} /\ pc' = "mis_loop") =>
          /\ 0 <= bot' /\ 0 <= top' /\ bot' + top' <= Size(a)
          /\ Present(a, key) => Holds(bot', top')]_vars

\* C10: every element a predicate is evaluated on lies inside the range.
C10_ProbesInRange == \A idx \in probe : InRange(idx)

====
